---- MODULE Spec2Model ----
(***************************************************************************)
(* Queue population, player movement and post-game promotion of Scoot.     *)
(*                                                                         *)
(* Part 1 (specification Spec): the population engine and the move         *)
(* processor of server/game-logic/game-population.ts, on snapshots built   *)
(* by the slice-based populateGame and by the transition state machine.    *)
(*                                                                         *)
(* Part 2 (specification SpecStore): the Store of a session (check-ins,    *)
(* head and tail counters, games, game players), game creation, the move   *)
(* route and the promotion resolver of updateGameScore.                    *)
(***************************************************************************)
EXTENDS Integers, Sequences, FiniteSets, TLC

\* ------------------------------------------------------------------ bounds
MaxQueue == 7        \* checked-in players handed to populateGame
MaxTeamSize == 3     \* gameSet.playersPerTeam of the slice-based populateGame
MaxMoves == 2        \* moves applied in a row to one snapshot
NumUsers == 4        \* registered players
MaxGameSets == 1     \* game sets created
MaxPlayersPerTeam == 2   \* playersPerTeam of a game set
MaxWinCap == 2       \* maxConsecutiveTeamWins of a game set
MaxCheckins == 8     \* rows of the checkins table
MaxWaiting == 1      \* checked-in players beyond the two teams
MaxGames == 2        \* games created
MaxScore == 1        \* a team's recorded score
MaxStoreMoves == 1   \* moves persisted by the move route
MaxRequests == 2     \* requests the server handles at the same time
MaxCheckinRequests == 4   \* check-in requests that reach the checkins table
MaxGamesPlayed == 2   \* a player's gamesPlayed
MaxLosses == 2        \* a player's consecutiveLosses
MaxMachinePlayers == 4   \* players handed to the state machine directly
MaxMinPlayers == 2    \* minPlayersPerTeam of a configuration handed to it
MaxSessions == 2      \* game sets created one after the other

\* ------------------------------------------------------- JavaScript values
\* A slot of a JS array that holds no player object: `undefined` (a hole, or
\* an element read past the end) and the `null` JSON.stringify writes for it.
Undef == 0
Null == 0 - 1

Falsy(v) == v = Undef \/ v = Null

PlayerIds == 1 .. (MaxQueue + 1)

Min(a, b) == IF a < b THEN a ELSE b
Max(a, b) == IF a > b THEN a ELSE b

\* arr[i] with a 0-based index; undefined past the end
At(arr, i) == IF i >= 0 /\ i < Len(arr) THEN arr[i + 1] ELSE Undef

\* arr[i] = v with a 0-based index; writing past the end leaves holes
SetAt(arr, i, v) ==
    [k \in 1 .. Max(Len(arr), i + 1) |->
        IF k = i + 1 THEN v ELSE IF k <= Len(arr) THEN arr[k] ELSE Undef]

\* arr.slice(from, to)
Slice(arr, from, to) ==
    LET lo == Min(Max(from, 0), Len(arr))
        hi == Min(Max(to, lo), Len(arr))
    IN  [k \in 1 .. (hi - lo) |-> arr[lo + k]]

SliceFrom(arr, from) == Slice(arr, from, Len(arr))

\* JSON.parse(JSON.stringify(arr)): undefined elements and holes become null
CloneArray(arr) == [k \in 1 .. Len(arr) |-> IF arr[k] = Undef THEN Null ELSE arr[k]]

PopulationStates ==
    {"WAITING_FOR_PLAYERS", "TEAM_ASSIGNMENT", "COURT_SELECTION", "GAME_CREATION", "COMPLETE"}

MoveTypes == {"CHECKOUT", "BUMP", "HORIZONTAL_SWAP", "VERTICAL_SWAP"}

VARIABLES
    gameState,   \* the GameState the engine works on
    origin,      \* which routine built it: "none", "slice", "machine"
    engineError, \* TRUE once handleGameCreation threw
    lastMove,    \* the last movePlayer call: its input, arguments and result
    moves,       \* number of movePlayer calls so far
    db,          \* the Store: users, gameSets, checkins, games, gamePlayers
    lastOp,      \* what updateGameScore decided, when it was the last operation
    lastPromotion, \* the latest promotion and the game created after it
    storeMoves,  \* number of moves persisted so far
    requests     \* the check-in requests in flight, one per connection

engineVars == <<gameState, origin, engineError, lastMove, moves>>

storeVars == <<db, lastOp, lastPromotion, storeMoves, requests>>

vars == <<gameState, origin, engineError, lastMove, moves, db, lastOp, lastPromotion, storeMoves,
          requests>>

Users == 1 .. NumUsers
Courts == {"West", "East"}
PromotedTypes == {"win_promoted", "loss_promoted"}
NoGame == 0          \* a null gameId
NoScore == 0 - 1     \* a null score

\* -------------------------------------------------------------- the engine
initializeGameState(config) ==
    [currentState |-> "WAITING_FOR_PLAYERS",
     availablePlayers |-> <<>>,
     teamA |-> <<>>,
     teamB |-> <<>>,
     selectedCourt |-> "null",
     config |-> config]

\* JSON.parse(JSON.stringify(state))
CloneState(state) ==
    [state EXCEPT !.availablePlayers = CloneArray(@),
                  !.teamA = CloneArray(@),
                  !.teamB = CloneArray(@)]

\* The checked-in players getCheckins returns, in ascending queue position
Checkins(n) == [k \in 1 .. n |-> k]

\* populateGame of the move revision: teams and next-up are slices of the queue
SliceConfig(playersPerTeam) ==
    [minPlayersPerTeam |-> Max(3, playersPerTeam - 1),
     maxPlayersPerTeam |-> playersPerTeam,
     courtPreference |-> <<"West", "East">>]

\* populateGame filling Team B from the head of the queue and Team A from the
\* players behind them
populateGame_AwayFirst(playersPerTeam, checkins) ==
    LET teamSize == playersPerTeam
    IN  [initializeGameState(SliceConfig(playersPerTeam)) EXCEPT
            !.teamB = Slice(checkins, 0, teamSize),
            !.teamA = Slice(checkins, teamSize, teamSize * 2),
            !.availablePlayers = SliceFrom(checkins, teamSize * 2),
            !.currentState = "COMPLETE"]

populateGame(playersPerTeam, checkins) ==
    LET teamSize == playersPerTeam
    IN  [initializeGameState(SliceConfig(playersPerTeam)) EXCEPT
            !.teamA = Slice(checkins, 0, teamSize),
            !.teamB = Slice(checkins, teamSize, teamSize * 2),
            !.availablePlayers = SliceFrom(checkins, teamSize * 2),
            !.currentState = "COMPLETE"]

\* ---------------------------------------------------- the state machine
\* A Player value carries id, gamesPlayed and consecutiveLosses in one number:
\* id + IdRadix * (gamesPlayed + (MaxGamesPlayed + 1) * consecutiveLosses).
\* populateGame fills in gamesPlayed 0 and consecutiveLosses 0 for every
\* checked-in player, so the players it builds are their ids.
IdRadix == MaxQueue + 1

Player(id, played, losses) == id + IdRadix * (played + (MaxGamesPlayed + 1) * losses)

gamesPlayed(p) == IF p <= 0 THEN 0 ELSE (p \div IdRadix) % (MaxGamesPlayed + 1)
consecutiveLosses(p) == IF p <= 0 THEN 0 ELSE p \div (IdRadix * (MaxGamesPlayed + 1))

\* calculatePlayerSkill, doubled to stay in the integers
calculatePlayerSkill2(p) == 2 * gamesPlayed(p) - consecutiveLosses(p)

\* A comparator that looks at the skill score only
compareSkill_SkillOnly(a, b) == calculatePlayerSkill2(b) - calculatePlayerSkill2(a)

\* The comparator of handleTeamAssignment: negative when a sorts before b
compareSkill(a, b) ==
    LET skillDiff2 == calculatePlayerSkill2(b) - calculatePlayerSkill2(a)
    IN  IF skillDiff2 # 0 THEN skillDiff2 ELSE gamesPlayed(b) - gamesPlayed(a)

\* [...players].sort(compareSkill): a stable sort
sortPlayers(players) ==
    LET before(j, k) ==
            \/ compareSkill(players[j], players[k]) < 0
            \/ compareSkill(players[j], players[k]) = 0 /\ j < k
        rank(k) == 1 + Cardinality({j \in 1 .. Len(players) : before(j, k)})
    IN  [r \in 1 .. Len(players) |->
            players[CHOOSE k \in 1 .. Len(players) : rank(k) = r]]

\* The config populateGame of the state-machine revision builds
MachineConfig ==
    [minPlayersPerTeam |-> 3,
     maxPlayersPerTeam |-> 5,
     courtPreference |-> <<"West", "East">>]

\* handleWaitingForPlayers counting the players of one team only
handleWaitingForPlayers_OneTeam(state) ==
    LET minPlayers == state.config.minPlayersPerTeam
    IN  IF Len(state.availablePlayers) >= minPlayers
        THEN [state EXCEPT !.currentState = "TEAM_ASSIGNMENT"]
        ELSE state

handleWaitingForPlayers(state) ==
    LET minPlayers == state.config.minPlayersPerTeam * 2
    IN  IF Len(state.availablePlayers) >= minPlayers
        THEN [state EXCEPT !.currentState = "TEAM_ASSIGNMENT"]
        ELSE state

handleTeamAssignment(state) ==
    LET sortedPlayers == sortPlayers(state.availablePlayers)
        n == Len(sortedPlayers)
        teamA == [k \in 1 .. ((n + 1) \div 2) |-> sortedPlayers[2 * k - 1]]
        teamB == [k \in 1 .. (n \div 2) |-> sortedPlayers[2 * k]]
    IN  [state EXCEPT !.teamA = teamA,
                      !.teamB = teamB,
                      !.currentState = "COURT_SELECTION"]

handleCourtSelection(state) ==
    LET selectedCourt ==
            IF Len(state.config.courtPreference) > 0
            THEN state.config.courtPreference[1]
            ELSE "undefined"
    IN  [state EXCEPT !.selectedCourt = selectedCourt,
                      !.currentState = "GAME_CREATION"]

isValidGameState(state) ==
    /\ Len(state.teamA) = Len(state.teamB)
    /\ Len(state.teamA) >= state.config.minPlayersPerTeam
    /\ state.selectedCourt # "null"

\* handleGameCreation throws when the state is not valid
handleGameCreationThrows(state) == ~isValidGameState(state)

handleGameCreation(state) == [state EXCEPT !.currentState = "COMPLETE"]

transitionGameState(state) ==
    CASE state.currentState = "WAITING_FOR_PLAYERS" -> handleWaitingForPlayers(state)
      [] state.currentState = "TEAM_ASSIGNMENT" -> handleTeamAssignment(state)
      [] state.currentState = "COURT_SELECTION" -> handleCourtSelection(state)
      [] state.currentState = "GAME_CREATION" -> handleGameCreation(state)
      [] OTHER -> state

\* ------------------------------------------------------- the move processor
\* Array.prototype.findIndex(p => p.id === playerId): the 0-based index of the
\* first match, NotFound when there is none, Throws when an element without a
\* player object is visited first (p.id of undefined or null is a TypeError)
NotFound == 0 - 1
Throws == 0 - 2

findIndex(arr, playerId) ==
    LET hits == {k \in 1 .. Len(arr) : arr[k] = playerId \/ Falsy(arr[k])}
        first == CHOOSE k \in hits : \A j \in hits : k <= j
    IN  IF hits = {} THEN NotFound
        ELSE IF arr[first] = playerId THEN first - 1
        ELSE Throws

findPlayerIndex(state, playerId) ==
    LET inTeamA == findIndex(state.teamA, playerId)
        inTeamB == findIndex(state.teamB, playerId)
        inAvailable == findIndex(state.availablePlayers, playerId)
    IN  IF inTeamA = Throws THEN Throws
        ELSE IF inTeamA # NotFound THEN inTeamA
        ELSE IF inTeamB = Throws THEN Throws
        ELSE IF inTeamB # NotFound THEN inTeamB + Len(state.teamA)
        ELSE IF inAvailable = Throws THEN Throws
        ELSE IF inAvailable # NotFound
             THEN inAvailable + Len(state.teamA) + Len(state.teamB)
        ELSE NotFound

\* A MoveResult; threw stands for an exception instead of a result
Failure(state) == [success |-> FALSE, threw |-> FALSE, updatedState |-> state]
Success(state) == [success |-> TRUE, threw |-> FALSE, updatedState |-> state]
Thrown(state) == [success |-> FALSE, threw |-> TRUE, updatedState |-> state]

HasFalsy(arr) == \E k \in 1 .. Len(arr) : Falsy(arr[k])
HasNull(arr) == \E k \in 1 .. Len(arr) : arr[k] = Null

\* handleCheckout writing the replacement into the team slot before it tests
\* that there is a replacement (the refusal then carries the written slot)
handleCheckout_WriteFirst(state, playerIndex) ==
    LET teamSize == state.config.maxPlayersPerTeam
        availableIndex == playerIndex - (teamSize * 2)
        nextPlayer == At(state.availablePlayers, 0)
        replaced ==
            IF playerIndex < teamSize
            THEN [state EXCEPT !.teamA = SetAt(@, playerIndex, nextPlayer),
                               !.availablePlayers = SliceFrom(@, 1)]
            ELSE [state EXCEPT !.teamB = SetAt(@, playerIndex - teamSize, nextPlayer),
                               !.availablePlayers = SliceFrom(@, 1)]
    IN  IF HasFalsy(state.availablePlayers) THEN Thrown(state)
        ELSE IF playerIndex >= teamSize * 2
        THEN Success([state EXCEPT !.availablePlayers =
                        Slice(@, 0, availableIndex) \o SliceFrom(@, availableIndex + 1)])
        ELSE IF Falsy(nextPlayer) THEN Failure(replaced)
        ELSE Success(replaced)

\* handleCheckout taking the head of the next-up list, whichever waiting
\* player was checked out
handleCheckout_RemovesHead(state, playerIndex) ==
    LET teamSize == state.config.maxPlayersPerTeam
        nextPlayer == At(state.availablePlayers, 0)
        teamBIndex == playerIndex - teamSize
        replaced ==
            IF playerIndex < teamSize
            THEN [state EXCEPT !.teamA = SetAt(@, playerIndex, nextPlayer),
                               !.availablePlayers = SliceFrom(@, 1)]
            ELSE [state EXCEPT !.teamB = SetAt(@, teamBIndex, nextPlayer),
                               !.availablePlayers = SliceFrom(@, 1)]
    IN  IF HasFalsy(state.availablePlayers) THEN Thrown(state)
        ELSE IF playerIndex >= teamSize * 2
        THEN Success([state EXCEPT !.availablePlayers = SliceFrom(@, 1)])
        ELSE IF Falsy(nextPlayer) THEN Failure(state)
        ELSE IF HasNull(replaced.teamA) \/ HasNull(replaced.teamB) THEN Thrown(state)
        ELSE Success(replaced)

\* handleCheckout leaving the replacement at the head of the next-up list
handleCheckout_KeepsHead(state, playerIndex) ==
    LET teamSize == state.config.maxPlayersPerTeam
        availableIndex == playerIndex - (teamSize * 2)
        nextPlayer == At(state.availablePlayers, 0)
        teamBIndex == playerIndex - teamSize
        replaced ==
            IF playerIndex < teamSize
            THEN [state EXCEPT !.teamA = SetAt(@, playerIndex, nextPlayer)]
            ELSE [state EXCEPT !.teamB = SetAt(@, teamBIndex, nextPlayer)]
    IN  IF HasFalsy(state.availablePlayers) THEN Thrown(state)
        ELSE IF playerIndex >= teamSize * 2
        THEN Success([state EXCEPT !.availablePlayers =
                        Slice(@, 0, availableIndex) \o SliceFrom(@, availableIndex + 1)])
        ELSE IF Falsy(nextPlayer) THEN Failure(state)
        ELSE IF HasNull(replaced.teamA) \/ HasNull(replaced.teamB) THEN Thrown(state)
        ELSE Success(replaced)

handleCheckout(state, playerIndex) ==
    LET teamSize == state.config.maxPlayersPerTeam
        availableIndex == playerIndex - (teamSize * 2)
        nextPlayer == At(state.availablePlayers, 0)
        teamBIndex == playerIndex - teamSize
        replaced ==
            IF playerIndex < teamSize
            THEN [state EXCEPT !.teamA = SetAt(@, playerIndex, nextPlayer),
                               !.availablePlayers = SliceFrom(@, 1)]
            ELSE [state EXCEPT !.teamB = SetAt(@, teamBIndex, nextPlayer),
                               !.availablePlayers = SliceFrom(@, 1)]
    IN  \* console.log maps p.username over availablePlayers
        IF HasFalsy(state.availablePlayers) THEN Thrown(state)
        ELSE IF playerIndex >= teamSize * 2
        THEN Success([state EXCEPT !.availablePlayers =
                        Slice(@, 0, availableIndex) \o SliceFrom(@, availableIndex + 1)])
        ELSE IF Falsy(nextPlayer) THEN Failure(state)
        \* the closing console.log maps p.username over both teams (holes are skipped)
        ELSE IF HasNull(replaced.teamA) \/ HasNull(replaced.teamB) THEN Thrown(state)
        ELSE Success(replaced)

\* handleBump without the unshift of the displaced team player
handleBump_DropsDisplaced(state, playerIndex) ==
    LET teamSize == state.config.maxPlayersPerTeam
        availableIndex == playerIndex - (teamSize * 2)
        avail == state.availablePlayers
        bumpPlayer == At(avail, 0)
    IN  IF playerIndex >= teamSize * 2
        THEN IF availableIndex >= Len(avail) - 1
             THEN Failure(state)
             ELSE Success([state EXCEPT !.availablePlayers =
                     SetAt(SetAt(avail, availableIndex, At(avail, availableIndex + 1)),
                           availableIndex + 1, At(avail, availableIndex))])
        ELSE IF Len(avail) = 0 THEN Failure(state)
        ELSE IF playerIndex < teamSize
        THEN Success([state EXCEPT !.teamA = SetAt(@, playerIndex, bumpPlayer),
                                   !.availablePlayers = SliceFrom(avail, 1)])
        ELSE Success([state EXCEPT !.teamB = SetAt(@, playerIndex - teamSize, bumpPlayer),
                                   !.availablePlayers = SliceFrom(avail, 1)])

\* handleBump without the refusal for the last waiting player
handleBump_LastAllowed(state, playerIndex) ==
    LET teamSize == state.config.maxPlayersPerTeam
        availableIndex == playerIndex - (teamSize * 2)
        avail == state.availablePlayers
        bumpPlayer == At(avail, 0)
    IN  IF playerIndex >= teamSize * 2
        THEN IF availableIndex >= Len(avail)
             THEN Failure(state)
             ELSE Success([state EXCEPT !.availablePlayers =
                     SetAt(SetAt(avail, availableIndex, At(avail, availableIndex + 1)),
                           availableIndex + 1, At(avail, availableIndex))])
        ELSE IF Len(avail) = 0 THEN Failure(state)
        ELSE IF playerIndex < teamSize
        THEN Success([state EXCEPT
                !.teamA = SetAt(@, playerIndex, bumpPlayer),
                !.availablePlayers = <<At(state.teamA, playerIndex)>> \o SliceFrom(avail, 1)])
        ELSE Success([state EXCEPT
                !.teamB = SetAt(@, playerIndex - teamSize, bumpPlayer),
                !.availablePlayers =
                    <<At(state.teamB, playerIndex - teamSize)>> \o SliceFrom(avail, 1)])

handleBump(state, playerIndex) ==
    LET teamSize == state.config.maxPlayersPerTeam
        availableIndex == playerIndex - (teamSize * 2)
        avail == state.availablePlayers
        bumpPlayer == At(avail, 0)
    IN  IF playerIndex >= teamSize * 2
        THEN IF availableIndex >= Len(avail) - 1
             THEN Failure(state)
             ELSE Success([state EXCEPT !.availablePlayers =
                     SetAt(SetAt(avail, availableIndex, At(avail, availableIndex + 1)),
                           availableIndex + 1, At(avail, availableIndex))])
        ELSE IF Len(avail) = 0 THEN Failure(state)
        ELSE IF playerIndex < teamSize
        THEN Success([state EXCEPT
                !.teamA = SetAt(@, playerIndex, bumpPlayer),
                !.availablePlayers = <<At(state.teamA, playerIndex)>> \o SliceFrom(avail, 1)])
        ELSE Success([state EXCEPT
                !.teamB = SetAt(@, playerIndex - teamSize, bumpPlayer),
                !.availablePlayers =
                    <<At(state.teamB, playerIndex - teamSize)>> \o SliceFrom(avail, 1)])

\* handleHorizontalSwap writing Team B's player into Team A and leaving
\* Team B's slot as it was
handleHorizontalSwap_CopiesOnly(state, playerIndex) ==
    LET teamSize == state.config.maxPlayersPerTeam
        newState == CloneState(state)
        swapIndex == IF playerIndex < teamSize THEN playerIndex ELSE playerIndex - teamSize
    IN  IF playerIndex >= teamSize * 2 THEN Failure(state)
        ELSE IF Falsy(At(newState.teamA, swapIndex)) \/ Falsy(At(newState.teamB, swapIndex))
        THEN Failure(state)
        ELSE Success([newState EXCEPT
                !.teamA = SetAt(@, swapIndex, At(newState.teamB, swapIndex))])

handleHorizontalSwap(state, playerIndex) ==
    LET teamSize == state.config.maxPlayersPerTeam
        newState == CloneState(state)
        swapIndex == IF playerIndex < teamSize THEN playerIndex ELSE playerIndex - teamSize
    IN  IF playerIndex >= teamSize * 2 THEN Failure(state)
        ELSE IF Falsy(At(newState.teamA, swapIndex)) \/ Falsy(At(newState.teamB, swapIndex))
        THEN Failure(state)
        ELSE Success([newState EXCEPT
                !.teamA = SetAt(@, swapIndex, At(newState.teamB, swapIndex)),
                !.teamB = SetAt(@, swapIndex, At(newState.teamA, swapIndex))])

\* handleVerticalSwap taking a Team A player for the Team B player of the
\* same slot
handleVerticalSwap_AnyTeam(state, playerIndex) ==
    LET teamSize == state.config.maxPlayersPerTeam
        newState == CloneState(state)
        currentIndex == playerIndex % teamSize
        nextIndex == (currentIndex + 1) % teamSize
    IN  IF playerIndex >= teamSize * 2 THEN Failure(state)
        ELSE IF Falsy(At(newState.teamB, currentIndex)) \/ Falsy(At(newState.teamB, nextIndex))
        THEN Failure(state)
        ELSE Success([newState EXCEPT
                !.teamB = SetAt(SetAt(@, currentIndex, At(newState.teamB, nextIndex)),
                                nextIndex, At(newState.teamB, currentIndex))])

\* handleVerticalSwap without the wrap from the last slot to slot 0
handleVerticalSwap_NoWrap(state, playerIndex) ==
    LET teamSize == state.config.maxPlayersPerTeam
        newState == CloneState(state)
        currentIndex == playerIndex - teamSize
        nextIndex == currentIndex + 1
    IN  IF playerIndex < teamSize \/ playerIndex >= teamSize * 2 THEN Failure(state)
        ELSE IF Falsy(At(newState.teamB, currentIndex)) \/ Falsy(At(newState.teamB, nextIndex))
        THEN Failure(state)
        ELSE Success([newState EXCEPT
                !.teamB = SetAt(SetAt(@, currentIndex, At(newState.teamB, nextIndex)),
                                nextIndex, At(newState.teamB, currentIndex))])

handleVerticalSwap(state, playerIndex) ==
    LET teamSize == state.config.maxPlayersPerTeam
        newState == CloneState(state)
        currentIndex == playerIndex - teamSize
        nextIndex == (currentIndex + 1) % teamSize
    IN  IF playerIndex < teamSize \/ playerIndex >= teamSize * 2 THEN Failure(state)
        ELSE IF Falsy(At(newState.teamB, currentIndex)) \/ Falsy(At(newState.teamB, nextIndex))
        THEN Failure(state)
        ELSE Success([newState EXCEPT
                !.teamB = SetAt(SetAt(@, currentIndex, At(newState.teamB, nextIndex)),
                                nextIndex, At(newState.teamB, currentIndex))])

movePlayer(state, playerId, moveType) ==
    LET playerIndex == findPlayerIndex(state, playerId)
        newState == CloneState(state)
    IN  IF playerIndex = Throws THEN Thrown(state)
        ELSE IF playerIndex = NotFound THEN Failure(state)
        ELSE CASE moveType = "CHECKOUT" -> handleCheckout(newState, playerIndex)
               [] moveType = "BUMP" -> handleBump(newState, playerIndex)
               [] moveType = "HORIZONTAL_SWAP" -> handleHorizontalSwap(newState, playerIndex)
               [] moveType = "VERTICAL_SWAP" -> handleVerticalSwap(newState, playerIndex)
               [] OTHER -> Failure(state)

NoMove ==
    [called |-> FALSE, playerId |-> 0, moveType |-> "none", success |-> FALSE,
     threw |-> FALSE, before |-> initializeGameState(SliceConfig(1))]

EngineInit ==
    /\ gameState = initializeGameState(SliceConfig(1))
    /\ origin = "none"
    /\ engineError = FALSE
    /\ lastMove = NoMove
    /\ moves = 0

\* ------------------------------------------------------------ the Store
\* Store operations of the promotion revision (createGameSet, createCheckin,
\* getCheckins, createGame, createGamePlayer, updateGameScore,
\* determinePromotionType) and updateCheckins of the move revision.
\* A table is a sequence of rows; the id of a row is its index.

\* gamePlayers rows of a game, in each order a query without ORDER BY may give
RECURSIVE Orderings(_)
Orderings(S) ==
    IF S = {} THEN {<<>>}
    ELSE UNION {{<<x>> \o rest : rest \in Orderings(S \ {x})} : x \in S}

ActiveGameSets(d) == {s \in DOMAIN d.gameSets : d.gameSets[s].isActive}

\* getActiveGameSet: createGameSet leaves at most one game set active
getActiveGameSet(d) == CHOOSE s \in ActiveGameSets(d) : TRUE

ActiveCheckins(d) == {i \in DOMAIN d.checkins : d.checkins[i].isActive}

\* The rows in the order of their ids, the order of insertion
RECURSIVE OrderedById(_, _)
OrderedById(d, rows) ==
    IF rows = {} THEN {<<>>}
    ELSE LET least == CHOOSE i \in rows : \A j \in rows : i <= j
         IN  {<<least>> \o rest : rest \in OrderedById(d, rows \ {least})}

\* ORDER BY queuePosition: rows with equal positions come in either order
RECURSIVE OrderedByPosition(_, _)
OrderedByPosition(d, rows) ==
    IF rows = {} THEN {<<>>}
    ELSE LET least == {i \in rows : \A j \in rows :
                          d.checkins[i].queuePosition <= d.checkins[j].queuePosition}
         IN  UNION {{<<i>> \o rest : rest \in OrderedByPosition(d, rows \ {i})} : i \in least}

\* getCheckins: the ids of the rows it can return, in the order it returns them
getCheckins(d) ==
    IF ActiveGameSets(d) = {} THEN {<<>>}
    ELSE OrderedByPosition(d, ActiveCheckins(d))

UserIds(d, rows) == [k \in 1 .. Len(rows) |-> d.checkins[rows[k]].userId]

NewCheckin(userId, gameSetId, queuePosition, type) ==
    [userId |-> userId, isActive |-> TRUE, queuePosition |-> queuePosition,
     type |-> type, gameId |-> NoGame, gameSetId |-> gameSetId]

createGameSet(d, playersPerTeam, maxConsecutiveTeamWins) ==
    LET deactivated == [s \in DOMAIN d.gameSets |-> [d.gameSets[s] EXCEPT !.isActive = FALSE]]
    IN  [d EXCEPT !.gameSets = Append(deactivated,
            [isActive |-> TRUE,
             currentQueuePosition |-> 1,
             queueNextUp |-> 1,
             playersPerTeam |-> playersPerTeam,
             maxConsecutiveTeamWins |-> maxConsecutiveTeamWins])]

\* createGameSet of the other storage revision: it also deactivates every
\* active check-in
createGameSetClearing(d, playersPerTeam, maxConsecutiveTeamWins) ==
    LET deactivated == [i \in DOMAIN d.checkins |-> [d.checkins[i] EXCEPT !.isActive = FALSE]]
    IN  createGameSet([d EXCEPT !.checkins = deactivated],
                      playersPerTeam, maxConsecutiveTeamWins)

\* createCheckin, called with an active game set
createCheckin(d, userId) ==
    LET setId == getActiveGameSet(d)
        activeGameSet == d.gameSets[setId]
        existingCheckins == {i \in ActiveCheckins(d) : d.checkins[i].userId = userId}
    IN  IF existingCheckins # {} THEN d
        ELSE [d EXCEPT
                !.checkins = Append(@, NewCheckin(userId, setId, activeGameSet.queueNextUp, "manual")),
                !.gameSets[setId].queueNextUp = activeGameSet.queueNextUp + 1]

createGame(d, setId, court) ==
    LET gameSet == d.gameSets[setId]
        newQueuePosition == gameSet.currentQueuePosition + (gameSet.playersPerTeam * 2)
    IN  [d EXCEPT
            !.gameSets[setId].currentQueuePosition = newQueuePosition,
            !.games = Append(@, [setId |-> setId, court |-> court, state |-> "started",
                                 team1Score |-> NoScore, team2Score |-> NoScore])]

\* createGamePlayer: the stores it can leave behind
createGamePlayer(d, gameId, userId, team) ==
    LET promotedIds == {i \in DOMAIN d.checkins :
                          /\ d.checkins[i].userId = userId
                          /\ d.checkins[i].type \in PromotedTypes}
        promotedGameId ==
            IF promotedIds = {} THEN NoGame
            ELSE d.checkins[CHOOSE i \in promotedIds : \A j \in promotedIds : j <= i].gameId
        previousGame ==
            IF promotedGameId = NoGame THEN {}
            ELSE {r \in DOMAIN d.gamePlayers :
                     /\ d.gamePlayers[r].gameId = promotedGameId
                     /\ d.gamePlayers[r].userId = userId}
        teams == IF previousGame = {} THEN {team}
                 ELSE {d.gamePlayers[r].team : r \in previousGame}
        currentCheckin == {i \in ActiveCheckins(d) : d.checkins[i].userId = userId}
    IN  {LET inserted == [d EXCEPT !.gamePlayers =
                             Append(@, [gameId |-> gameId, userId |-> userId, team |-> t])]
         IN  IF c = NoGame THEN inserted
             ELSE [inserted EXCEPT !.checkins[c].gameId = gameId]
         : t \in teams,
           c \in IF currentCheckin = {} THEN {NoGame} ELSE currentCheckin}

\* players.map(createGamePlayer) of POST /api/games
RECURSIVE createGamePlayers(_, _, _)
createGamePlayers(stores, gameId, players) ==
    IF players = <<>> THEN stores
    ELSE createGamePlayers(
            UNION {createGamePlayer(d, gameId, Head(players).userId, Head(players).team)
                   : d \in stores},
            gameId, Tail(players))

\* createGameMutation of the New Game page followed by POST /api/games:
\* the first playersPerTeam check-ins are Home (1), the next ones Away (2)
postGame(d, court, rows) ==
    LET setId == getActiveGameSet(d)
        playersPerTeam == d.gameSets[setId].playersPerTeam
        playersNeeded == playersPerTeam * 2
        homePlayers == Slice(UserIds(d, rows), 0, playersPerTeam)
        awayPlayers == Slice(UserIds(d, rows), playersPerTeam, playersNeeded)
        players == [k \in 1 .. Len(homePlayers) |-> [userId |-> homePlayers[k], team |-> 1]]
                   \o [k \in 1 .. Len(awayPlayers) |-> [userId |-> awayPlayers[k], team |-> 2]]
        created == createGame(d, setId, court)
    IN  createGamePlayers({created}, Len(created.games), players)

winnerOf(game) == IF game.team1Score > game.team2Score THEN 1 ELSE 2

\* determinePromotionType with the cap compared by <= (promotes a winner that
\* has just reached the cap)
determinePromotionType_CapInclusive(d, gameId) ==
    LET game == d.games[gameId]
        maxConsecutiveTeamWins == d.gameSets[game.setId].maxConsecutiveTeamWins
        previousGames == {g \in 1 .. (gameId - 1) :
                            /\ d.games[g].setId = game.setId
                            /\ d.games[g].court = game.court
                            /\ d.games[g].state = "final"}
        winningTeam == winnerOf(game)
        chain == {g \in previousGames :
                    \A h \in previousGames : h >= g => winnerOf(d.games[h]) = winningTeam}
        consecutiveWins == 1 + Cardinality(chain)
    IN  IF consecutiveWins <= maxConsecutiveTeamWins
        THEN [type |-> "win_promoted", team |-> winningTeam,
              consecutiveWins |-> consecutiveWins]
        ELSE [type |-> "loss_promoted", team |-> IF winningTeam = 1 THEN 2 ELSE 1,
              consecutiveWins |-> consecutiveWins]

\* determinePromotionType of a game whose scores are recorded; consecutiveWins
\* is the count the routine logs
determinePromotionType(d, gameId) ==
    LET game == d.games[gameId]
        maxConsecutiveTeamWins == d.gameSets[game.setId].maxConsecutiveTeamWins
        previousGames == {g \in 1 .. (gameId - 1) :
                            /\ d.games[g].setId = game.setId
                            /\ d.games[g].court = game.court
                            /\ d.games[g].state = "final"}
        winningTeam == winnerOf(game)
        \* the previous games, most recent first, up to the first other winner
        chain == {g \in previousGames :
                    \A h \in previousGames : h >= g => winnerOf(d.games[h]) = winningTeam}
        consecutiveWins == 1 + Cardinality(chain)
    IN  IF consecutiveWins < maxConsecutiveTeamWins
        THEN [type |-> "win_promoted", team |-> winningTeam,
              consecutiveWins |-> consecutiveWins]
        ELSE [type |-> "loss_promoted", team |-> IF winningTeam = 1 THEN 2 ELSE 1,
              consecutiveWins |-> consecutiveWins]

\* updateGameScore, the gamePlayers rows of the game coming back in the order
\* `players`
updateGameScoreWith(d, gameId, team1Score, team2Score, players) ==
    LET game == d.games[gameId]
        gameSet == d.gameSets[game.setId]
        finalGames == [d.games EXCEPT ![gameId] =
                          [@ EXCEPT !.team1Score = team1Score,
                                    !.team2Score = team2Score,
                                    !.state = "final"]]
        promotionInfo == determinePromotionType([d EXCEPT !.games = finalGames], gameId)
        promotedTeamPlayers ==
            SelectSeq(players, LAMBDA r : d.gamePlayers[r].team = promotionInfo.team)
        nonPromotedTeamPlayers ==
            SelectSeq(players, LAMBDA r : d.gamePlayers[r].team # promotionInfo.team)
        autoupPlayers ==
            SelectSeq(nonPromotedTeamPlayers, LAMBDA r : d.users[d.gamePlayers[r].userId].autoup)
        updatedQueueNextUp == gameSet.queueNextUp + gameSet.playersPerTeam
        deactivated == [i \in DOMAIN d.checkins |->
                          IF d.checkins[i].gameId = gameId
                          THEN [d.checkins[i] EXCEPT !.isActive = FALSE]
                          ELSE d.checkins[i]]
        shifted == [i \in DOMAIN deactivated |->
                      IF /\ deactivated[i].isActive
                         /\ deactivated[i].queuePosition >= gameSet.currentQueuePosition
                      THEN [deactivated[i] EXCEPT !.queuePosition = @ + gameSet.playersPerTeam]
                      ELSE deactivated[i]]
        promotedCheckins == [i \in 1 .. Len(promotedTeamPlayers) |->
            NewCheckin(d.gamePlayers[promotedTeamPlayers[i]].userId, game.setId,
                       gameSet.currentQueuePosition + (i - 1), promotionInfo.type)]
        autoupCheckins == [i \in 1 .. Len(autoupPlayers) |->
            NewCheckin(d.gamePlayers[autoupPlayers[i]].userId, game.setId,
                       updatedQueueNextUp + (i - 1), "autoup")]
        nextPosition == updatedQueueNextUp + Len(autoupPlayers)
    IN  [d EXCEPT !.checkins = shifted \o promotedCheckins \o autoupCheckins,
                  !.games = finalGames,
                  !.gameSets[game.setId].queueNextUp = nextPosition]

\* updateGameScore with the head pointer of the game set moved on by one team
updateGameScore_HeadAdvances(d, gameId, team1Score, team2Score) ==
    LET players == {r \in DOMAIN d.gamePlayers : d.gamePlayers[r].gameId = gameId}
        setId == d.games[gameId].setId
    IN  {[s EXCEPT !.gameSets[setId].currentQueuePosition =
                        @ + d.gameSets[setId].playersPerTeam]
         : s \in {updateGameScoreWith(d, gameId, team1Score, team2Score, order)
                  : order \in Orderings(players)}}

\* updateGameScore: the stores it can leave behind
updateGameScore(d, gameId, team1Score, team2Score) ==
    LET players == {r \in DOMAIN d.gamePlayers : d.gamePlayers[r].gameId = gameId}
    IN  {updateGameScoreWith(d, gameId, team1Score, team2Score, order)
         : order \in Orderings(players)}

\* updateCheckins giving each player the position of their current check-in
\* (the currentPositions map) instead of the index in the snapshot
updateCheckins_KeepsPositions(d, setId, state) ==
    LET allPlayers == state.teamA \o state.teamB \o state.availablePlayers
        current(userId) == {i \in ActiveCheckins(d) : d.checkins[i].userId = userId}
        position(k) ==
            IF current(allPlayers[k]) = {} THEN k
            ELSE d.checkins[CHOOSE i \in current(allPlayers[k]) : TRUE].queuePosition
        deactivated == [i \in DOMAIN d.checkins |-> [d.checkins[i] EXCEPT !.isActive = FALSE]]
        inserted == [i \in 1 .. Len(allPlayers) |->
                        NewCheckin(allPlayers[i], setId, position(i), "manual")]
    IN  [d EXCEPT !.checkins = deactivated \o inserted]

\* updateCheckins: every active check-in is deactivated, then one "manual"
\* check-in per player of the state is inserted at positions 1, 2, ...;
\* reading player.id of an empty slot throws and ends the loop
updateCheckins(d, setId, state) ==
    LET allPlayers == state.teamA \o state.teamB \o state.availablePlayers
        empties == {k \in 1 .. Len(allPlayers) : Falsy(allPlayers[k])}
        written == IF empties = {} THEN Len(allPlayers)
                   ELSE (CHOOSE k \in empties : \A j \in empties : k <= j) - 1
        deactivated == [i \in DOMAIN d.checkins |-> [d.checkins[i] EXCEPT !.isActive = FALSE]]
        inserted == [i \in 1 .. written |-> NewCheckin(allPlayers[i], setId, i, "manual")]
    IN  [d EXCEPT !.checkins = deactivated \o inserted]

\* updateCheckins after the first `done` of its writes (the update that
\* deactivates, then one insert per player)
updateCheckinsWrites(d, setId, state, done) ==
    LET allPlayers == state.teamA \o state.teamB \o state.availablePlayers
        deactivated == [i \in DOMAIN d.checkins |-> [d.checkins[i] EXCEPT !.isActive = FALSE]]
        inserted == [i \in 1 .. (done - 1) |-> NewCheckin(allPlayers[i], setId, i, "manual")]
    IN  IF done = 0 THEN d
        ELSE [d EXCEPT !.checkins = deactivated \o inserted]

\* The number of writes of a complete updateGameScore
updateGameScoreWriteCount(d, gameId, team1Score, team2Score) ==
    LET finalGames == [d.games EXCEPT ![gameId] =
                          [@ EXCEPT !.team1Score = team1Score,
                                    !.team2Score = team2Score,
                                    !.state = "final"]]
        promotionInfo == determinePromotionType([d EXCEPT !.games = finalGames], gameId)
        players == {r \in DOMAIN d.gamePlayers : d.gamePlayers[r].gameId = gameId}
        autoupPlayers == {r \in players : /\ d.gamePlayers[r].team # promotionInfo.team
                                          /\ d.users[d.gamePlayers[r].userId].autoup}
        promotedTeamPlayers == {r \in players : d.gamePlayers[r].team = promotionInfo.team}
    IN  5 + Cardinality(promotedTeamPlayers) + Cardinality(autoupPlayers)

\* updateGameScore after the first `done` of its writes, in the order of the
\* code: check-ins of the game deactivated, game made final, tail moved on by
\* one team, waiting check-ins shifted, one insert per promoted player, one
\* insert per rejoining player, tail moved behind them
updateGameScoreWrites(d, gameId, team1Score, team2Score, players, done) ==
    LET game == d.games[gameId]
        gameSet == d.gameSets[game.setId]
        finalGames == [d.games EXCEPT ![gameId] =
                          [@ EXCEPT !.team1Score = team1Score,
                                    !.team2Score = team2Score,
                                    !.state = "final"]]
        promotionInfo == determinePromotionType([d EXCEPT !.games = finalGames], gameId)
        promotedTeamPlayers ==
            SelectSeq(players, LAMBDA r : d.gamePlayers[r].team = promotionInfo.team)
        nonPromotedTeamPlayers ==
            SelectSeq(players, LAMBDA r : d.gamePlayers[r].team # promotionInfo.team)
        autoupPlayers ==
            SelectSeq(nonPromotedTeamPlayers, LAMBDA r : d.users[d.gamePlayers[r].userId].autoup)
        updatedQueueNextUp == gameSet.queueNextUp + gameSet.playersPerTeam
        deactivated == [i \in DOMAIN d.checkins |->
                          IF d.checkins[i].gameId = gameId
                          THEN [d.checkins[i] EXCEPT !.isActive = FALSE]
                          ELSE d.checkins[i]]
        shifted == [i \in DOMAIN deactivated |->
                      IF /\ deactivated[i].isActive
                         /\ deactivated[i].queuePosition >= gameSet.currentQueuePosition
                      THEN [deactivated[i] EXCEPT !.queuePosition = @ + gameSet.playersPerTeam]
                      ELSE deactivated[i]]
        promotedDone == Min(Max(done - 4, 0), Len(promotedTeamPlayers))
        autoupDone == Min(Max(done - 4 - Len(promotedTeamPlayers), 0), Len(autoupPlayers))
        promotedCheckins == [i \in 1 .. promotedDone |->
            NewCheckin(d.gamePlayers[promotedTeamPlayers[i]].userId, game.setId,
                       gameSet.currentQueuePosition + (i - 1), promotionInfo.type)]
        autoupCheckins == [i \in 1 .. autoupDone |->
            NewCheckin(d.gamePlayers[autoupPlayers[i]].userId, game.setId,
                       updatedQueueNextUp + (i - 1), "autoup")]
        total == updateGameScoreWriteCount(d, gameId, team1Score, team2Score)
    IN  [d EXCEPT
            !.checkins = (IF done >= 4 THEN shifted
                          ELSE IF done >= 1 THEN deactivated ELSE @)
                            \o promotedCheckins \o autoupCheckins,
            !.games = IF done >= 2 THEN finalGames ELSE @,
            !.gameSets[game.setId].queueNextUp =
                IF done >= total THEN updatedQueueNextUp + Len(autoupPlayers)
                ELSE IF done >= 3 THEN updatedQueueNextUp ELSE @]

\* The handler of POST /api/player-move, the check-ins coming back in the
\* order `rows`: 400 and no Store write when the move is refused, 500 when
\* the engine throws, else the moved snapshot is written by updateCheckins
playerMove_PersistsRefused(d, playerId, moveType, rows) ==
    LET setId == getActiveGameSet(d)
        gameState1 == populateGame(d.gameSets[setId].playersPerTeam, UserIds(d, rows))
        result == movePlayer(gameState1, playerId, moveType)
    IN  IF ActiveGameSets(d) = {} THEN [status |-> 500, db |-> d]
        ELSE IF result.threw THEN [status |-> 500, db |-> d]
        ELSE [status |-> IF result.success THEN 200 ELSE 400,
              db |-> updateCheckins(d, setId, result.updatedState)]

playerMove(d, playerId, moveType, rows) ==
    LET setId == getActiveGameSet(d)
        gameState1 == populateGame(d.gameSets[setId].playersPerTeam, UserIds(d, rows))
        result == movePlayer(gameState1, playerId, moveType)
    IN  IF ActiveGameSets(d) = {} THEN [status |-> 500, db |-> d]
        ELSE IF result.threw THEN [status |-> 500, db |-> d]
        ELSE IF ~result.success THEN [status |-> 400, db |-> d]
        ELSE [status |-> 200, db |-> updateCheckins(d, setId, result.updatedState)]

\* ------------------------------------------------------ Store operations
EmptyStore(users) ==
    [users |-> users, gameSets |-> <<>>, checkins |-> <<>>, games |-> <<>>,
     gamePlayers |-> <<>>]

NoOp ==
    [op |-> "none", gameId |-> NoGame, team |-> 0, type |-> "none",
     consecutiveWins |-> 0, rowsBefore |-> 0, headBefore |-> 0, tailBefore |-> 0]

NoPromotion == [gameId |-> NoGame, team |-> 0, users |-> {}, nextGame |-> NoGame]

\* A request of createCheckin between two of its Store calls: the call it
\* makes next and its locals (userId, and activeGameSet as it was read)
Connections == 1 .. MaxRequests
Idle == [pc |-> "idle", userId |-> 0, setId |-> 0, queueNextUp |-> 0]

StoreInit(users) ==
    /\ db = EmptyStore(users)
    /\ lastOp = NoOp
    /\ lastPromotion = NoPromotion
    /\ storeMoves = 0
    /\ requests = [c \in Connections |-> Idle]

Init ==
    /\ EngineInit
    /\ StoreInit([u \in Users |-> [autoup |-> TRUE]])

\* The users table: the autoup flag is off for the first players to arrive
\* and on for the others, for every number of players without it
AutoupSettings == {[u \in Users |-> [autoup |-> u > off]] : off \in 0 .. NumUsers}

InitStore ==
    /\ EngineInit
    /\ \E users \in AutoupSettings : StoreInit(users)

\* populateGame (slice-based) builds the snapshot of one request
PopulateGame ==
    /\ origin = "none"
    /\ \E playersPerTeam \in 1 .. MaxTeamSize, n \in 0 .. MaxQueue :
          gameState' = populateGame(playersPerTeam, Checkins(n))
    /\ origin' = "slice"
    /\ UNCHANGED <<engineError, lastMove, moves, storeVars>>

\* populateGame of the state-machine revision: every checked-in player becomes
\* available, then the loop below drives the transitions
PopulateGameStart ==
    /\ origin = "none"
    /\ \E n \in 0 .. MaxQueue :
          gameState' = [initializeGameState(MachineConfig) EXCEPT
                            !.availablePlayers = Checkins(n)]
    /\ origin' = "machine"
    /\ UNCHANGED <<engineError, lastMove, moves, storeVars>>

\* One iteration of `while (currentState !== COMPLETE) transitionGameState`
PopulateGameStep ==
    /\ origin = "machine"
    /\ ~engineError
    /\ gameState.currentState # "COMPLETE"
    /\ IF gameState.currentState = "GAME_CREATION" /\ handleGameCreationThrows(gameState)
       THEN /\ engineError' = TRUE
            /\ UNCHANGED gameState
       ELSE /\ gameState' = transitionGameState(gameState)
            /\ UNCHANGED engineError
    /\ UNCHANGED <<origin, lastMove, moves, storeVars>>

\* movePlayer applied to the current snapshot; the caller goes on with the
\* snapshot of the result
MovePlayer ==
    /\ origin # "none"
    /\ gameState.currentState = "COMPLETE"
    /\ ~engineError
    /\ moves < MaxMoves
    /\ \E playerId \in PlayerIds, moveType \in MoveTypes \cup {"UNKNOWN"} :
          LET result == movePlayer(gameState, playerId, moveType)
          IN  /\ gameState' = IF result.threw THEN gameState ELSE result.updatedState
              /\ lastMove' = [called |-> TRUE, playerId |-> playerId, moveType |-> moveType,
                              success |-> result.success, threw |-> result.threw,
                              before |-> gameState]
    /\ moves' = moves + 1
    /\ UNCHANGED <<origin, engineError, storeVars>>

Next ==
    \/ PopulateGame
    \/ PopulateGameStart
    \/ PopulateGameStep
    \/ MovePlayer

Spec == Init /\ [][Next]_vars

\* POST /api/game-sets
CreateGameSet ==
    /\ Len(db.gameSets) < MaxGameSets
    /\ \E playersPerTeam \in 1 .. MaxPlayersPerTeam, maxConsecutiveTeamWins \in 1 .. MaxWinCap :
          db' = createGameSet(db, playersPerTeam, maxConsecutiveTeamWins)
    /\ lastOp' = NoOp
    /\ UNCHANGED <<lastPromotion, storeMoves, requests, engineVars>>

\* POST /api/checkins. Players are interchangeable, so those who have never
\* checked in arrive in the order of their ids.
CreateCheckin ==
    /\ ActiveGameSets(db) # {}
    /\ Len(db.checkins) < MaxCheckins
    /\ Cardinality(ActiveCheckins(db)) <
          db.gameSets[getActiveGameSet(db)].playersPerTeam * 2 + MaxWaiting
    /\ \E userId \in Users :
          /\ \A other \in 1 .. (userId - 1) :
                \E i \in DOMAIN db.checkins : db.checkins[i].userId = other
          /\ db' = createCheckin(db, userId)
    /\ lastOp' = NoOp
    /\ UNCHANGED <<lastPromotion, storeMoves, requests, engineVars>>

\* The Create Game button (shown once enough players are checked in), and
\* POST /api/games
CreateGame ==
    /\ ActiveGameSets(db) # {}
    /\ Len(db.games) < MaxGames
    /\ \E court \in Courts, rows \in getCheckins(db) :
          /\ Len(rows) >= db.gameSets[getActiveGameSet(db)].playersPerTeam * 2
          /\ \E d \in postGame(db, court, rows) : db' = d
    /\ lastOp' = NoOp
    /\ lastPromotion' =
          IF lastPromotion.gameId # NoGame /\ lastPromotion.nextGame = NoGame
          THEN [lastPromotion EXCEPT !.nextGame = Len(db.games) + 1]
          ELSE lastPromotion
    /\ UNCHANGED <<storeMoves, requests, engineVars>>

\* PATCH /api/games/:id/score of a game in progress
UpdateGameScore ==
    /\ \E gameId \in DOMAIN db.games, team1Score \in 0 .. MaxScore, team2Score \in 0 .. MaxScore :
          /\ db.games[gameId].state = "started"
          /\ Len(db.checkins) + 2 * db.gameSets[db.games[gameId].setId].playersPerTeam
                <= MaxCheckins
          /\ \E d \in updateGameScore(db, gameId, team1Score, team2Score) :
                LET promotionInfo == determinePromotionType(d, gameId)
                IN  /\ db' = d
                    /\ lastOp' =
                          [op |-> "updateGameScore",
                           gameId |-> gameId,
                           team |-> promotionInfo.team,
                           type |-> promotionInfo.type,
                           consecutiveWins |-> promotionInfo.consecutiveWins,
                           rowsBefore |-> Len(db.checkins),
                           headBefore |-> db.gameSets[db.games[gameId].setId].currentQueuePosition,
                           tailBefore |-> db.gameSets[db.games[gameId].setId].queueNextUp]
                    /\ lastPromotion' =
                          [gameId |-> gameId,
                           team |-> promotionInfo.team,
                           users |-> {db.gamePlayers[r].userId : r \in
                                        {q \in DOMAIN db.gamePlayers :
                                            /\ db.gamePlayers[q].gameId = gameId
                                            /\ db.gamePlayers[q].team = promotionInfo.team}},
                           nextGame |-> NoGame]
    /\ UNCHANGED <<storeMoves, requests, engineVars>>

\* POST /api/player-move: populateGame, movePlayer and, when the move
\* succeeded, updateCheckins
PlayerMove ==
    /\ storeMoves < MaxStoreMoves
    /\ Len(db.checkins) + Cardinality(ActiveCheckins(db)) <= MaxCheckins
    /\ \E playerId \in Users, moveType \in MoveTypes, rows \in getCheckins(db) :
          \E response \in {playerMove(db, playerId, moveType, rows)} :
              /\ db' = response.db
              /\ storeMoves' = IF response.status = 200 THEN storeMoves + 1 ELSE storeMoves
              /\ lastOp' = CASE response.status = 400 -> [NoOp EXCEPT !.op = "moveRefused"]
                              [] response.status = 500 -> [NoOp EXCEPT !.op = "moveFailed"]
                              [] OTHER -> NoOp
    /\ UNCHANGED <<lastPromotion, requests, engineVars>>

NextStore ==
    \/ CreateGameSet
    \/ CreateCheckin
    \/ CreateGame
    \/ UpdateGameScore
    \/ PlayerMove

SpecStore == InitStore /\ [][NextStore]_vars

\* ------------------------------------- createCheckin, one Store call a step
\* createCheckin, first call: getActiveGameSet (the request throws when there
\* is none). Connections are interchangeable, so a request takes the first
\* idle one; players are interchangeable, so a player's first request comes
\* after those of the players with smaller ids.
CheckinGetActiveGameSet ==
    /\ ActiveGameSets(db) # {}
    /\ Len(db.checkins) + Cardinality({c \in Connections : requests[c].pc # "idle"})
          < MaxCheckinRequests
    /\ \E c \in Connections, userId \in Users :
          /\ requests[c].pc = "idle"
          /\ \A b \in 1 .. (c - 1) : requests[b].pc # "idle"
          /\ \A other \in 1 .. (userId - 1) :
                \/ \E i \in DOMAIN db.checkins : db.checkins[i].userId = other
                \/ \E b \in Connections : requests[b].userId = other
          /\ requests' = [requests EXCEPT ![c] =
                [pc |-> "selectExisting", userId |-> userId,
                 setId |-> getActiveGameSet(db),
                 queueNextUp |-> db.gameSets[getActiveGameSet(db)].queueNextUp]]
    /\ UNCHANGED <<db, lastOp, lastPromotion, storeMoves, engineVars>>

\* createCheckin, second call: the select of the user's active check-ins; the
\* request returns the existing check-in when there is one
CheckinSelectExisting ==
    /\ \E c \in Connections :
          /\ requests[c].pc = "selectExisting"
          /\ requests' = [requests EXCEPT ![c] =
                IF \E i \in ActiveCheckins(db) : db.checkins[i].userId = requests[c].userId
                THEN Idle
                ELSE [@ EXCEPT !.pc = "insert"]]
    /\ UNCHANGED <<db, lastOp, lastPromotion, storeMoves, engineVars>>

\* createCheckin, third call: the insert at the tail position read by the
\* first call
CheckinInsert ==
    /\ \E c \in Connections :
          /\ requests[c].pc = "insert"
          /\ db' = [db EXCEPT !.checkins =
                Append(@, NewCheckin(requests[c].userId, requests[c].setId,
                                     requests[c].queueNextUp, "manual"))]
          /\ requests' = [requests EXCEPT ![c].pc = "updateQueueNextUp"]
    /\ UNCHANGED <<lastOp, lastPromotion, storeMoves, engineVars>>

\* createCheckin, fourth call: queueNextUp = activeGameSet.queueNextUp + 1,
\* from the game set as the first call read it
CheckinUpdateQueueNextUp ==
    /\ \E c \in Connections :
          /\ requests[c].pc = "updateQueueNextUp"
          /\ db' = [db EXCEPT !.gameSets[requests[c].setId].queueNextUp =
                                    requests[c].queueNextUp + 1]
          /\ requests' = [requests EXCEPT ![c] = Idle]
    /\ UNCHANGED <<lastOp, lastPromotion, storeMoves, engineVars>>

NextCalls ==
    \/ CreateGameSet
    \/ CheckinGetActiveGameSet
    \/ CheckinSelectExisting
    \/ CheckinInsert
    \/ CheckinUpdateQueueNextUp

SpecCalls == Init /\ [][NextCalls]_vars

\* ------------------------------------------ operations cut short by a fault
\* No Store call has failed so far
Running == lastOp.op \notin {"moveInterrupted", "scoreInterrupted"}

\* POST /api/player-move whose move succeeded and whose updateCheckins has a
\* Store call fail after `done` writes: the handler answers 500
PlayerMoveInterrupted ==
    /\ Running
    /\ ActiveGameSets(db) # {}
    /\ Len(db.checkins) + Cardinality(ActiveCheckins(db)) <= MaxCheckins
    /\ \E playerId \in Users, moveType \in MoveTypes, rows \in getCheckins(db) :
          LET setId == getActiveGameSet(db)
              state == populateGame(db.gameSets[setId].playersPerTeam, UserIds(db, rows))
              result == movePlayer(state, playerId, moveType)
          IN  /\ result.success
              /\ \E done \in 0 .. Len(rows) :
                    db' = updateCheckinsWrites(db, setId, result.updatedState, done)
    /\ lastOp' = [NoOp EXCEPT !.op = "moveInterrupted"]
    /\ UNCHANGED <<lastPromotion, storeMoves, requests, engineVars>>

\* PATCH /api/games/:id/score whose updateGameScore has a Store call fail
\* after `done` writes
UpdateGameScoreInterrupted ==
    /\ Running
    /\ \E gameId \in DOMAIN db.games, team1Score \in 0 .. MaxScore, team2Score \in 0 .. MaxScore :
          /\ db.games[gameId].state = "started"
          /\ Len(db.checkins) + 2 * db.gameSets[db.games[gameId].setId].playersPerTeam
                <= MaxCheckins
          /\ \E order \in Orderings({r \in DOMAIN db.gamePlayers :
                                        db.gamePlayers[r].gameId = gameId}),
                done \in 0 .. (updateGameScoreWriteCount(db, gameId, team1Score, team2Score) - 1) :
                db' = updateGameScoreWrites(db, gameId, team1Score, team2Score, order, done)
    /\ lastOp' = [NoOp EXCEPT !.op = "scoreInterrupted"]
    /\ UNCHANGED <<lastPromotion, storeMoves, requests, engineVars>>

NextFaults ==
    \/ Running /\ CreateGameSet
    \/ Running /\ CreateCheckin
    \/ Running /\ CreateGame
    \/ Running /\ UpdateGameScore
    \/ PlayerMoveInterrupted
    \/ UpdateGameScoreInterrupted

SpecFaults == Init /\ [][NextFaults]_vars

\* ------------------------------------------------- populate from the Store
\* populateGame of the move revision reading the Store: it throws when there
\* is no active game set, else it slices the active check-ins
PopulateFromStore ==
    /\ origin = "none"
    /\ ~engineError
    /\ IF ActiveGameSets(db) = {}
       THEN /\ engineError' = TRUE
            /\ UNCHANGED <<gameState, origin>>
       ELSE /\ \E rows \in getCheckins(db) :
                  gameState' = populateGame(db.gameSets[getActiveGameSet(db)].playersPerTeam,
                                            UserIds(db, rows))
            /\ origin' = "slice"
            /\ UNCHANGED engineError
    /\ UNCHANGED <<lastMove, moves, storeVars>>

\* populateGame of the state-machine revision reading the Store: the
\* configuration is the built-in one and the active game set is not read
PopulateFromStoreStart ==
    /\ origin = "none"
    /\ ~engineError
    /\ \E rows \in getCheckins(db) :
          gameState' = [initializeGameState(MachineConfig) EXCEPT
                            !.availablePlayers = UserIds(db, rows)]
    /\ origin' = "machine"
    /\ UNCHANGED <<engineError, lastMove, moves, storeVars>>

NextPopulate ==
    \/ CreateGameSet
    \/ CreateCheckin
    \/ PlayerMove
    \/ PopulateFromStore
    \/ PopulateFromStoreStart
    \/ PopulateGameStep

SpecPopulate == Init /\ [][NextPopulate]_vars

\* ------------------------------------------- the state machine on its own
\* initializeGameState(config) with the caller's players in availablePlayers,
\* then transitionGameState applied again and again
MachineConfigs ==
    {[MachineConfig EXCEPT !.minPlayersPerTeam = minPlayers,
                           !.courtPreference = courts] :
        minPlayers \in 1 .. MaxMinPlayers,
        courts \in {<<>>, <<"West", "East">>}}

Stats == (0 .. MaxGamesPlayed) \X (0 .. MaxLosses)

MachinePlayers ==
    UNION {{[k \in 1 .. n |-> Player(k, stats[k][1], stats[k][2])] :
                stats \in [1 .. n -> Stats]} : n \in 0 .. MaxMachinePlayers}

InitMachine ==
    /\ \E config \in MachineConfigs, players \in MachinePlayers :
          gameState = [initializeGameState(config) EXCEPT !.availablePlayers = players]
    /\ origin = "machine"
    /\ engineError = FALSE
    /\ lastMove = NoMove
    /\ moves = 0
    /\ StoreInit([u \in Users |-> [autoup |-> TRUE]])

\* transitionGameState(gameState), the caller keeping what it returns
TransitionGameState ==
    /\ ~engineError
    /\ IF gameState.currentState = "GAME_CREATION" /\ handleGameCreationThrows(gameState)
       THEN /\ engineError' = TRUE
            /\ UNCHANGED gameState
       ELSE /\ gameState' = transitionGameState(gameState)
            /\ UNCHANGED engineError
    /\ UNCHANGED <<origin, lastMove, moves, storeVars>>

NextMachine == TransitionGameState

SpecMachine == InitMachine /\ [][NextMachine]_vars

\* ------------------------------------------- the move route, call by call
\* POST /api/player-move up to its second await: populateGame reads the Store
\* and movePlayer computes the result; a refused or failed move is answered
\* at once, a successful one goes on to updateCheckins with the snapshot held
\* in gameState
MoveRead ==
    /\ requests[1].pc = "idle"
    /\ storeMoves < MaxStoreMoves
    /\ ActiveGameSets(db) # {}
    /\ \E playerId \in Users, moveType \in MoveTypes, rows \in getCheckins(db) :
          LET setId == getActiveGameSet(db)
              gameState1 == populateGame(db.gameSets[setId].playersPerTeam, UserIds(db, rows))
          IN  \E result \in {movePlayer(gameState1, playerId, moveType)} :
                 /\ lastMove' = [called |-> TRUE, playerId |-> playerId,
                                 moveType |-> moveType, success |-> result.success,
                                 threw |-> result.threw, before |-> gameState1]
                 /\ gameState' = result.updatedState
                 /\ IF result.success
                    THEN /\ requests' = [requests EXCEPT ![1] =
                                [pc |-> "updateCheckins", setId |-> setId,
                                 rowsRead |-> Len(db.checkins)]]
                         /\ lastOp' = NoOp
                    ELSE /\ requests' = requests
                         /\ lastOp' = [NoOp EXCEPT !.op =
                                IF result.threw THEN "moveFailed" ELSE "moveRefused"]
    /\ origin' = "slice"
    /\ moves' = moves
    /\ UNCHANGED <<engineError, db, lastPromotion, storeMoves>>

\* storage.updateCheckins(setId, result.updatedState) and the answer
MoveWrite ==
    /\ requests[1].pc = "updateCheckins"
    /\ db' = updateCheckins(db, requests[1].setId, gameState)
    /\ lastOp' = [op |-> "movePersisted",
                  setId |-> requests[1].setId,
                  rowsRead |-> requests[1].rowsRead,
                  rowsBefore |-> Len(db.checkins)]
    /\ storeMoves' = storeMoves + 1
    /\ requests' = [requests EXCEPT ![1] = Idle]
    /\ UNCHANGED <<lastPromotion, engineVars>>

NextMoves ==
    \/ CreateGameSet
    \/ CreateCheckin
    \/ MoveRead
    \/ MoveWrite

SpecMoves == Init /\ [][NextMoves]_vars

\* ------------------------------------------------ the populate loop, fairly
\* `while (currentState !== COMPLETE) gameState = transitionGameState(gameState)`
\* runs without an await: once populateGame has started, its next iteration
\* is always taken
SpecLoop == Init /\ [][Next]_vars /\ WF_vars(PopulateGameStep)

\* ------------------------------------------------ one session after another
\* POST /api/game-sets while there are game sets already, with createGameSet
\* of either storage revision
CreateSession ==
    /\ Len(db.gameSets) < MaxSessions
    /\ \E playersPerTeam \in 1 .. MaxPlayersPerTeam, maxConsecutiveTeamWins \in 1 .. MaxWinCap :
          db' = createGameSet(db, playersPerTeam, maxConsecutiveTeamWins)
    /\ lastOp' = [NoOp EXCEPT !.op = "createGameSet"]
    /\ UNCHANGED <<lastPromotion, storeMoves, requests, engineVars>>

CreateSessionClearing ==
    /\ Len(db.gameSets) < MaxSessions
    /\ \E playersPerTeam \in 1 .. MaxPlayersPerTeam, maxConsecutiveTeamWins \in 1 .. MaxWinCap :
          db' = createGameSetClearing(db, playersPerTeam, maxConsecutiveTeamWins)
    /\ lastOp' = [NoOp EXCEPT !.op = "createGameSetClearing"]
    /\ UNCHANGED <<lastPromotion, storeMoves, requests, engineVars>>

NextSessions ==
    \/ CreateSession
    \/ CreateSessionClearing
    \/ CreateCheckin

SpecSessions == Init /\ [][NextSessions]_vars

\* ------------------------------------------------------------- properties
\* Number of slots of arr that hold v
Count(arr, v) == Cardinality({k \in 1 .. Len(arr) : arr[k] = v})

\* Number of times v occurs across Team A, Team B and next-up of a snapshot
Occurrences(state, v) ==
    Count(state.teamA, v) + Count(state.teamB, v) + Count(state.availablePlayers, v)

SlotValues == PlayerIds \cup {Undef, Null}

\* The same player, or no player, in every slot
SameSlots(a, b) ==
    /\ Len(a) = Len(b)
    /\ \A k \in 1 .. Len(a) : a[k] = b[k] \/ (Falsy(a[k]) /\ Falsy(b[k]))

SameSnapshot(s, t) ==
    /\ SameSlots(s.teamA, t.teamA)
    /\ SameSlots(s.teamB, t.teamB)
    /\ SameSlots(s.availablePlayers, t.availablePlayers)
    /\ s.selectedCourt = t.selectedCourt
    /\ s.currentState = t.currentState

LastMoveSucceeded == lastMove.called /\ lastMove.success
LastMoveFailed == lastMove.called /\ ~lastMove.success /\ ~lastMove.threw

C2_EachPlayerOnce ==
    \A p \in PlayerIds : Occurrences(gameState, p) <= 1

\* C3: a move that returns success=false (player not found, wrong move class,
\* no replacement, invalid swap slot, unknown move type) returns a snapshot
\* with the same player in every slot of Team A, Team B and next-up, the same
\* court and the same state as its input.
C3_FailureReturnsInput ==
    LastMoveFailed => SameSnapshot(gameState, lastMove.before)

\* C3 witness: a team player's CHECKOUT is refused because next-up is empty,
\* after an earlier move.
C3_Witness ==
    /\ LastMoveFailed
    /\ moves = 2
    /\ lastMove.moveType = "CHECKOUT"
    /\ Count(lastMove.before.teamB, lastMove.playerId) = 1
    /\ lastMove.before.availablePlayers = <<>>

\* C4: in every snapshot whose state is not WAITING_FOR_PLAYERS, Team A and
\* Team B each hold exactly teamSize players.
FilledSlots(arr) == Cardinality({k \in 1 .. Len(arr) : ~Falsy(arr[k])})

C4_TeamsFull ==
    gameState.currentState # "WAITING_FOR_PLAYERS" =>
        /\ FilledSlots(gameState.teamA) = gameState.config.maxPlayersPerTeam
        /\ FilledSlots(gameState.teamB) = gameState.config.maxPlayersPerTeam

\* ------------------------------------------------- promotion properties
ScoreRecorded == lastOp.op = "updateGameScore"

\* The players the game has on a team
PlayersOf(gameId, team) ==
    {db.gamePlayers[r].userId : r \in
        {q \in DOMAIN db.gamePlayers :
            db.gamePlayers[q].gameId = gameId /\ db.gamePlayers[q].team = team}}

OtherTeam(team) == IF team = 1 THEN 2 ELSE 1

\* The check-ins the last updateGameScore inserted
NewRows == (lastOp.rowsBefore + 1) .. Len(db.checkins)
PromotedRows == {i \in NewRows : db.checkins[i].type \in PromotedTypes}

Tied(gameId) == db.games[gameId].team1Score = db.games[gameId].team2Score

\* The team with the higher recorded score
HigherScore(gameId) ==
    IF db.games[gameId].team1Score > db.games[gameId].team2Score THEN 1 ELSE 2

\* C5: when a score is recorded, with S the streak the resolver counted for
\* the winning team and M the cap of the game set: exactly one team is the
\* promoted team, for every pair of scores; when the scores differ it is the
\* team with the higher score if S < M and the other team otherwise; the
\* promoted check-ins are those of the promoted team's players, typed
\* win_promoted if S < M and loss_promoted otherwise.
C5_PromotionDecision ==
    ScoreRecorded =>
        LET gameId == lastOp.gameId
            M == db.gameSets[db.games[gameId].setId].maxConsecutiveTeamWins
            S == lastOp.consecutiveWins
            promoted == PlayersOf(gameId, lastOp.team)
        IN  /\ lastOp.team \in {1, 2}
            /\ ~Tied(gameId) =>
                  lastOp.team = IF S < M THEN HigherScore(gameId)
                                ELSE OtherTeam(HigherScore(gameId))
            /\ lastOp.type = IF S < M THEN "win_promoted" ELSE "loss_promoted"
            /\ {db.checkins[i].userId : i \in PromotedRows} = promoted
            /\ \A i \in PromotedRows : db.checkins[i].type = lastOp.type

\* C5 witness: a second consecutive win under a cap of 2 promotes the losers
C5_Witness ==
    /\ ScoreRecorded
    /\ ~Tied(lastOp.gameId)
    /\ lastOp.consecutiveWins = 2
    /\ db.gameSets[db.games[lastOp.gameId].setId].maxConsecutiveTeamWins = 2
    /\ lastOp.type = "loss_promoted"
    /\ lastOp.team = OtherTeam(HigherScore(lastOp.gameId))
    /\ PromotedRows # {}

\* The completed games the resolver looks back on
PreviousGames(gameId) ==
    {g \in 1 .. (gameId - 1) :
        /\ db.games[g].setId = db.games[gameId].setId
        /\ db.games[g].court = db.games[gameId].court
        /\ db.games[g].state = "final"}

Winners(gameId) == PlayersOf(gameId, HigherScore(gameId))

\* 1 + the number of immediately preceding completed games of the court and
\* session that the winners of the game won as well
TeamStreak(gameId) ==
    1 + Cardinality({g \in PreviousGames(gameId) :
            \A h \in PreviousGames(gameId) : h >= g => Winners(h) = Winners(gameId)})

NoTies(gameId) ==
    ~Tied(gameId) /\ \A g \in PreviousGames(gameId) : ~Tied(g)

\* C6: the streak used for the promotion decision is 1 plus the number of
\* immediately preceding completed games on the same court and in the same
\* session that were won by the same group of players.
C6_StreakCountsSameTeam ==
    (ScoreRecorded /\ NoTies(lastOp.gameId)) =>
        lastOp.consecutiveWins = TeamStreak(lastOp.gameId)

\* C7: when a group of players has won M consecutive games on a court, the
\* losing team of the M-th game is promoted and the winners are not.
C7_CapEvictsWinners ==
    (/\ ScoreRecorded
     /\ NoTies(lastOp.gameId)
     /\ TeamStreak(lastOp.gameId) >=
            db.gameSets[db.games[lastOp.gameId].setId].maxConsecutiveTeamWins) =>
        /\ lastOp.team = OtherTeam(HigherScore(lastOp.gameId))
        /\ \A i \in PromotedRows : db.checkins[i].userId \notin Winners(lastOp.gameId)

ActiveRowsOf(userId) == {i \in ActiveCheckins(db) : db.checkins[i].userId = userId}

\* Check-ins of players who are checked in and not playing, other than the
\* check-ins the resolver just inserted
WaitingRows ==
    {i \in ActiveCheckins(db) : i \notin NewRows /\ db.checkins[i].gameId = NoGame}

\* C8: after a result is resolved the promoted team's players occupy teamSize
\* contiguous queue positions starting at the head, ahead of every waiting
\* player.
C8_PromotedAtHead ==
    ScoreRecorded =>
        LET gameSet == db.gameSets[db.games[lastOp.gameId].setId]
            head == gameSet.currentQueuePosition
            promoted == PlayersOf(lastOp.gameId, lastOp.team)
            positions == {db.checkins[i].queuePosition :
                            i \in UNION {ActiveRowsOf(u) : u \in promoted}}
        IN  /\ positions = head .. (head + gameSet.playersPerTeam - 1)
            /\ \A u \in promoted : Cardinality(ActiveRowsOf(u)) = 1
            /\ \A w \in WaitingRows : \A q \in positions :
                    q < db.checkins[w].queuePosition

\* C9: in the next game created after a promotion every promoted player is
\* on the side they had in the finished game, and the other side holds no
\* promoted player.
C9_PromotedKeepSide ==
    lastPromotion.nextGame # NoGame =>
        /\ PlayersOf(lastPromotion.nextGame, OtherTeam(lastPromotion.team))
                \cap lastPromotion.users = {}
        /\ lastPromotion.users \subseteq PlayersOf(lastPromotion.nextGame, lastPromotion.team)

\* C10: after a result is resolved each non-promoted player with autoup has
\* exactly one active check-in, these take consecutive positions from the
\* tail (behind the teamSize positions opened for the promoted team) and lie
\* behind every waiting player; a non-promoted player without autoup has no
\* active check-in.
C10_AutoupAtTail ==
    ScoreRecorded =>
        LET gameSet == db.gameSets[db.games[lastOp.gameId].setId]
            nonPromoted == PlayersOf(lastOp.gameId, OtherTeam(lastOp.team))
                              \ PlayersOf(lastOp.gameId, lastOp.team)
            rejoining == {u \in nonPromoted : db.users[u].autoup}
            positions == {db.checkins[i].queuePosition :
                            i \in UNION {ActiveRowsOf(u) : u \in rejoining}}
            first == lastOp.tailBefore + gameSet.playersPerTeam
        IN  /\ \A u \in rejoining : Cardinality(ActiveRowsOf(u)) = 1
            /\ positions = first .. (first + Cardinality(rejoining) - 1)
            /\ \A w \in WaitingRows : \A q \in positions :
                    db.checkins[w].queuePosition < q
            /\ \A u \in nonPromoted \ rejoining : ActiveRowsOf(u) = {}

\* The players of the finished game who are on the non-promoted team and have
\* autoup, one per gamePlayers row
AutoRejoined ==
    Cardinality({r \in DOMAIN db.gamePlayers :
                    /\ db.gamePlayers[r].gameId = lastOp.gameId
                    /\ db.gamePlayers[r].team # lastOp.team
                    /\ db.users[db.gamePlayers[r].userId].autoup})

C12_PositionsIncreaseNeverReused ==
    \A i, j \in DOMAIN db.checkins :
        (i < j /\ db.checkins[i].gameSetId = db.checkins[j].gameSetId) =>
            db.checkins[i].queuePosition < db.checkins[j].queuePosition

\* ------------------------------------------------- concurrency properties
Quiescent == \A c \in Connections : requests[c].pc = "idle"

\* The check-ins of a game set, in the order they were created
CheckinsOf(setId) ==
    SelectSeq([i \in DOMAIN db.checkins |-> i], LAMBDA i : db.checkins[i].gameSetId = setId)

\* C13: check-in requests interleaved at the granularity of Store calls
\* leave, once all have returned, the queue and the tail some serial
\* execution leaves: every player has at most one active check-in, the
\* check-ins of a game set have the positions 1, 2, ... in the order of their
\* creation, and the tail is one more than their number (two check-ins of
\* different players get different positions and move the tail by two).
C13_SerialOutcome ==
    Quiescent =>
        /\ \A i, j \in ActiveCheckins(db) :
                i # j => db.checkins[i].userId # db.checkins[j].userId
        /\ \A s \in DOMAIN db.gameSets :
                /\ \A k \in 1 .. Len(CheckinsOf(s)) :
                        db.checkins[CheckinsOf(s)[k]].queuePosition = k
                /\ db.gameSets[s].queueNextUp = Len(CheckinsOf(s)) + 1

\* C14: a request of the move route whose move is refused (success = false)
\* leaves every table of the Store as it was.
C14_RefusedMoveWritesNothing ==
    [][lastOp'.op = "moveRefused" => db' = db]_vars

\* C14 witness: a move was refused while players were checked in.
C14_Witness ==
    /\ lastOp.op = "moveRefused"
    /\ Cardinality(ActiveCheckins(db)) >= 2
    /\ db.games # <<>>

\* C15: when a Store call fails part-way through the persisting of a
\* successful move or of a promotion, the check-ins and the counters of the
\* game sets are left exactly as they were before the operation began.
C15_FailedCallLeavesNoPartialWrite ==
    [][lastOp'.op \in {"moveInterrupted", "scoreInterrupted"} =>
            /\ db'.checkins = db.checkins
            /\ db'.gameSets = db.gameSets]_vars

\* ------------------------------------------------- properties of each move
\* The 1-based place of the first entry of arr that holds v
IndexOf(arr, v) == CHOOSE k \in 1 .. Len(arr) : arr[k] = v /\ \A j \in 1 .. (k - 1) : arr[j] # v

\* arr without its entry at the 1-based place k
Without(arr, k) == SubSeq(arr, 1, k - 1) \o SubSeq(arr, k + 1, Len(arr))

\* The last call of movePlayer was this move of a player of the next-up
\* list, on a snapshot of populateGame or of moves applied to one
LastMoveOfNextUp(moveType) ==
    /\ origin = "slice"
    /\ lastMove.called
    /\ lastMove.moveType = moveType
    /\ Count(lastMove.before.availablePlayers, lastMove.playerId) > 0

LastMoveOfTeamPlayer(moveType) ==
    /\ origin = "slice"
    /\ lastMove.called
    /\ lastMove.moveType = moveType
    /\ Count(lastMove.before.teamA, lastMove.playerId)
          + Count(lastMove.before.teamB, lastMove.playerId) > 0

\* arr with v at the 1-based place k
With(arr, k, v) == [arr EXCEPT ![k] = v]

C18_NoReplacementRefused ==
    (/\ lastMove.called
     /\ lastMove.moveType \in {"CHECKOUT", "BUMP"}
     /\ Count(lastMove.before.teamA, lastMove.playerId)
           + Count(lastMove.before.teamB, lastMove.playerId) > 0
     /\ lastMove.before.availablePlayers = <<>>) =>
        /\ LastMoveFailed
        /\ gameState.teamA = lastMove.before.teamA
        /\ gameState.teamB = lastMove.before.teamB
        /\ ~HasFalsy(gameState.teamA)
        /\ ~HasFalsy(gameState.teamB)

\* C18 witness: after an earlier move, the BUMP of a player of Team A is
\* refused because nobody waits.
C18_Witness ==
    /\ LastMoveFailed
    /\ moves = 2
    /\ lastMove.moveType = "BUMP"
    /\ Count(lastMove.before.teamA, lastMove.playerId) = 1
    /\ lastMove.before.availablePlayers = <<>>
    /\ gameState.teamA = lastMove.before.teamA

\* The players of Team A and Team B of a snapshot
TeamPlayers(state) ==
    {state.teamA[k] : k \in 1 .. Len(state.teamA)} \cup {state.teamB[k] : k \in 1 .. Len(state.teamB)}

MoveTwice(state, playerId, moveType) ==
    movePlayer(movePlayer(state, playerId, moveType).updatedState, playerId, moveType)

RECURSIVE MoveTimes(_, _, _, _)
MoveTimes(state, playerId, moveType, n) ==
    IF n = 0 THEN Success(state)
    ELSE movePlayer(MoveTimes(state, playerId, moveType, n - 1).updatedState,
                    playerId, moveType)

\* The 1-based slot of a team of teamSize slots that lies k slots after slot c,
\* wrapping around
SlotAfter(c, k, teamSize) == ((c - 1 + k) % teamSize) + 1

\* C22: for every team size and every player p of Team B, VERTICAL_SWAP of p
\* applied teamSize times in a row returns Team B to its original order.
C22_VerticalSwapCycle ==
    origin = "slice" =>
        \A playerId \in {gameState.teamB[k] : k \in 1 .. Len(gameState.teamB)} :
            MoveTimes(gameState, playerId, "VERTICAL_SWAP",
                      gameState.config.maxPlayersPerTeam).updatedState.teamB
                = gameState.teamB

\* C22 (amended): VERTICAL_SWAP of a player p of Team B applied teamSize times
\* in a row leaves Team A and next-up as they were and Team B with the same
\* players. With Team B full every one of the swaps succeeds, p is back in
\* its slot and every other player of Team B ends one slot before the one
\* they had, the player who followed p going to the slot before p's; Team B
\* is then back in its original order only for team sizes 1 and 2.
C22_VerticalSwapRotatesOthers ==
    origin = "slice" =>
        \A playerId \in {gameState.teamB[k] : k \in 1 .. Len(gameState.teamB)} :
            LET teamSize == gameState.config.maxPlayersPerTeam
                teamB == gameState.teamB
                c == IndexOf(teamB, playerId)
                final == MoveTimes(gameState, playerId, "VERTICAL_SWAP", teamSize).updatedState
            IN  /\ final.teamA = gameState.teamA
                /\ final.availablePlayers = gameState.availablePlayers
                /\ Len(final.teamB) = Len(teamB)
                /\ \A v \in SlotValues : Count(final.teamB, v) = Count(teamB, v)
                /\ Len(teamB) = teamSize =>
                      /\ \A n \in 1 .. teamSize :
                            MoveTimes(gameState, playerId, "VERTICAL_SWAP", n).success
                      /\ final.teamB[c] = playerId
                      /\ \A k \in 1 .. (teamSize - 1) :
                            final.teamB[SlotAfter(c, k, teamSize)] =
                                teamB[SlotAfter(c, IF k = teamSize - 1 THEN 1 ELSE k + 1,
                                                teamSize)]
                      /\ (final.teamB = teamB) <=> (teamSize <= 2)

\* C22 witness: in a game of three-player teams a player of Team B has just
\* been moved by a VERTICAL_SWAP, after an earlier move; three more
\* VERTICAL_SWAPs of that player bring them back to the slot and leave the
\* other two exchanged.
C22_Witness ==
    /\ origin = "slice"
    /\ moves = 2
    /\ LastMoveSucceeded
    /\ lastMove.moveType = "VERTICAL_SWAP"
    /\ gameState.config.maxPlayersPerTeam = 3
    /\ Len(gameState.teamB) = 3
    /\ MoveTimes(gameState, lastMove.playerId, "VERTICAL_SWAP", 3).success
    /\ MoveTimes(gameState, lastMove.playerId, "VERTICAL_SWAP", 3).updatedState.teamB
          # gameState.teamB
    /\ IndexOf(MoveTimes(gameState, lastMove.playerId, "VERTICAL_SWAP", 3).updatedState.teamB,
               lastMove.playerId)
          = IndexOf(gameState.teamB, lastMove.playerId)

\* The player is in the next-up list of the snapshot and in no team
OnlyInNextUp(state, playerId) ==
    /\ Count(state.availablePlayers, playerId) > 0
    /\ Count(state.teamA, playerId) + Count(state.teamB, playerId) = 0

C25_PopulateSlicesQueue ==
    ActiveGameSets(db) # {} =>
        \A rows \in getCheckins(db) :
            LET teamSize == db.gameSets[getActiveGameSet(db)].playersPerTeam
                queue == UserIds(db, rows)
                state == populateGame(teamSize, queue)
            IN  Len(rows) >= 2 * teamSize =>
                    /\ {rows[k] : k \in 1 .. Len(rows)} = ActiveCheckins(db)
                    /\ Len(rows) = Cardinality(ActiveCheckins(db))
                    /\ \A k \in 1 .. (Len(rows) - 1) :
                          db.checkins[rows[k]].queuePosition
                              <= db.checkins[rows[k + 1]].queuePosition
                    /\ state.teamA = SubSeq(queue, 1, teamSize)
                    /\ state.teamB = SubSeq(queue, teamSize + 1, 2 * teamSize)
                    /\ state.availablePlayers = SubSeq(queue, 2 * teamSize + 1, Len(queue))
                    /\ state.currentState = "COMPLETE"

\* C25 witness: the move route has populated a snapshot (and refused the
\* move) from a queue of three players for one-player teams: one player is
\* next up.
C25_Witness ==
    /\ lastOp.op = "moveRefused"
    /\ ActiveGameSets(db) # {}
    /\ db.gameSets[getActiveGameSet(db)].playersPerTeam = 1
    /\ Cardinality(ActiveCheckins(db)) = 3
    /\ \A rows \in getCheckins(db) :
          /\ Len(populateGame(1, UserIds(db, rows)).availablePlayers) = 1
          /\ populateGame(1, UserIds(db, rows)).teamB = <<db.checkins[rows[2]].userId>>

\* C26: constructing a snapshot when there is no active session aborts with
\* an error: every populate step taken without an active game set raises the
\* error, returns no snapshot (the default configuration included) and leaves
\* the Store as it was, and a move request without an active game set fails
\* without a write.
PopulateTaken ==
    \/ origin' # origin
    \/ engineError' # engineError
    \/ gameState' # gameState

C26_NoSessionNoSnapshot ==
    [][ActiveGameSets(db) = {} =>
          /\ PopulateTaken => (engineError' /\ origin' = "none"
                                /\ gameState' = gameState /\ db' = db)
          /\ db' # db => ActiveGameSets(db') # {}
          /\ lastOp'.op \notin {"moveRefused"}]_vars

\* C27: the population state machine only takes the steps
\* WAITING_FOR_PLAYERS -> TEAM_ASSIGNMENT -> COURT_SELECTION -> GAME_CREATION
\* -> COMPLETE, one at a time and never backwards; the first step is taken
\* exactly when at least 2 x minPlayersPerTeam players are available, and
\* otherwise the snapshot is returned unchanged without an error; a
\* transition from COMPLETE returns the same snapshot.
StateRank(currentState) ==
    CASE currentState = "WAITING_FOR_PLAYERS" -> 0
      [] currentState = "TEAM_ASSIGNMENT" -> 1
      [] currentState = "COURT_SELECTION" -> 2
      [] currentState = "GAME_CREATION" -> 3
      [] currentState = "COMPLETE" -> 4

EnoughPlayers(state) ==
    Len(state.availablePlayers) >= 2 * state.config.minPlayersPerTeam

C27_StepsInOrder ==
    /\ [](/\ gameState.currentState = "WAITING_FOR_PLAYERS" =>
               /\ ~engineError
               /\ IF EnoughPlayers(gameState)
                  THEN transitionGameState(gameState).currentState = "TEAM_ASSIGNMENT"
                  ELSE transitionGameState(gameState) = gameState
          /\ gameState.currentState = "COMPLETE" =>
               transitionGameState(gameState) = gameState)
    /\ [][/\ gameState'.currentState # gameState.currentState =>
               StateRank(gameState'.currentState) = StateRank(gameState.currentState) + 1
          /\ gameState.currentState = "WAITING_FOR_PLAYERS" =>
               /\ ~engineError'
               /\ gameState' # gameState => EnoughPlayers(gameState)
          /\ gameState.currentState = "COMPLETE" => gameState' = gameState]_vars

\* the machine has walked from WAITING_FOR_PLAYERS to COMPLETE with exactly
\* 2 x minPlayersPerTeam players
C27_Witness ==
    /\ gameState.currentState = "COMPLETE"
    /\ origin = "machine"
    /\ gameState.config.minPlayersPerTeam = 2
    /\ Len(gameState.availablePlayers) = 4

\* C28: TEAM_ASSIGNMENT ranks all available players by skill score
\* (gamesPlayed - 0.5 x consecutiveLosses) descending, ties broken by
\* gamesPlayed descending, and puts the player of rank r (from 0) into Team A
\* when r is even and into Team B when r is odd: the teams read alternately
\* are the available players in that order, every available player is in
\* exactly one team, and Team A has as many players as Team B or one more.
Assigned(state) ==
    state.currentState \in {"COURT_SELECTION", "GAME_CREATION", "COMPLETE"}

\* the player of rank r, 0-based, read back from the teams
Ranked(state, r) ==
    IF r % 2 = 0 THEN state.teamA[(r \div 2) + 1] ELSE state.teamB[(r \div 2) + 1]

\* a ranks no lower than b
RanksBefore(a, b) ==
    \/ 2 * gamesPlayed(a) - consecutiveLosses(a) > 2 * gamesPlayed(b) - consecutiveLosses(b)
    \/ /\ 2 * gamesPlayed(a) - consecutiveLosses(a) = 2 * gamesPlayed(b) - consecutiveLosses(b)
       /\ gamesPlayed(a) >= gamesPlayed(b)

C28_TeamAssignmentAlternatesByRank ==
    Assigned(gameState) =>
        LET n == Len(gameState.availablePlayers)
        IN  /\ Len(gameState.teamA) = (n + 1) \div 2
            /\ Len(gameState.teamB) = n \div 2
            /\ \A r, s \in 0 .. n - 1 :
                    r < s => RanksBefore(Ranked(gameState, r), Ranked(gameState, s))
            /\ \A k \in 1 .. n :
                    Cardinality({r \in 0 .. n - 1 :
                        Ranked(gameState, r) = gameState.availablePlayers[k]}) = 1

\* three players assigned, the second one ranked first because the tie in
\* skill score with the first is broken by gamesPlayed
C28_Witness ==
    /\ gameState.currentState = "COURT_SELECTION"
    /\ Len(gameState.availablePlayers) = 3
    /\ gameState.availablePlayers[1] = Player(1, 0, 0)
    /\ gameState.availablePlayers[2] = Player(2, 1, 2)
    /\ gameState.teamA[1] = Player(2, 1, 2)
    /\ gameState.teamB[1] = Player(1, 0, 0)

\* C29: from GAME_CREATION the engine reaches COMPLETE only if Team A and
\* Team B have equal size, that size is at least minPlayersPerTeam and a
\* court has been selected; in every other case, an empty court-preference
\* list included, handleGameCreation fails with the invalid-state error and
\* COMPLETE is not reached.
CourtSelected(state) == state.selectedCourt \in Courts

ReadyForGame(state) ==
    /\ Len(state.teamA) = Len(state.teamB)
    /\ Len(state.teamA) >= state.config.minPlayersPerTeam
    /\ CourtSelected(state)

C29_CompleteOnlyWhenValid ==
    /\ gameState.currentState = "COMPLETE" => ReadyForGame(gameState)
    /\ gameState.currentState = "GAME_CREATION" =>
          (handleGameCreationThrows(gameState) <=> ~ReadyForGame(gameState))
    /\ engineError => gameState.currentState = "GAME_CREATION"

\* C30: in every snapshot populate builds from the Store, snapshots rebuilt
\* after a move has been persisted included, the next-up list is in ascending
\* order of the stored queue positions: entry k of next-up is the player of
\* the active check-in that getCheckins returned at index 2T + k, and the
\* queue positions of these check-ins never decrease along the list.
C30_NextUpAscending ==
    ActiveGameSets(db) # {} =>
        \A rows \in getCheckins(db) :
            LET teamSize == db.gameSets[getActiveGameSet(db)].playersPerTeam
                state == populateGame(teamSize, UserIds(db, rows))
                nextUp == state.availablePlayers
                row(k) == db.checkins[rows[2 * teamSize + k]]
            IN  /\ Len(nextUp) = Max(0, Len(rows) - 2 * teamSize)
                /\ \A k \in 1 .. Len(nextUp) :
                        /\ row(k).isActive
                        /\ row(k).userId = nextUp[k]
                /\ \A j, k \in 1 .. Len(nextUp) :
                        j < k => row(j).queuePosition <= row(k).queuePosition

\* C30 witness: a move has been persisted and the snapshot rebuilt from the
\* Store has two players next up, at different stored positions
C30_Witness ==
    /\ storeMoves = 1
    /\ ActiveGameSets(db) # {}
    /\ db.gameSets[getActiveGameSet(db)].playersPerTeam = 1
    /\ Cardinality(ActiveCheckins(db)) = 4
    /\ \A rows \in getCheckins(db) :
          /\ Len(populateGame(1, UserIds(db, rows)).availablePlayers) = 2
          /\ db.checkins[rows[3]].queuePosition < db.checkins[rows[4]].queuePosition

\* --------------------------------------------- properties of the locate step
\* C31: for every snapshot the engine produces (populate by slices, or the
\* state machine run to COMPLETE, and the snapshots moves return), the locate
\* step resolves a player id to the container and slot that hold that player,
\* read the way the move handlers read the index (below teamSize: Team A,
\* below 2 x teamSize: Team B, else next-up), and it reports not-found exactly
\* when the id is in none of Team A, Team B and next-up.
InSnapshot(state, id) ==
    \/ \E k \in 1 .. Len(state.teamA) : state.teamA[k] = id
    \/ \E k \in 1 .. Len(state.teamB) : state.teamB[k] = id
    \/ \E k \in 1 .. Len(state.availablePlayers) : state.availablePlayers[k] = id

\* the player in the slot a handler takes playerIndex to mean
SlotOf(state, playerIndex) ==
    LET teamSize == state.config.maxPlayersPerTeam
    IN  IF playerIndex < teamSize THEN At(state.teamA, playerIndex)
        ELSE IF playerIndex < teamSize * 2 THEN At(state.teamB, playerIndex - teamSize)
        ELSE At(state.availablePlayers, playerIndex - teamSize * 2)

C31_LocateFindsOwnSlot ==
    (origin # "none" /\ gameState.currentState = "COMPLETE") =>
        \A id \in 1 .. MaxQueue :
            LET playerIndex == findPlayerIndex(gameState, id)
            IN  /\ playerIndex # Throws
                /\ playerIndex = NotFound <=> ~InSnapshot(gameState, id)
                /\ playerIndex # NotFound => SlotOf(gameState, playerIndex) = id

\* ------------------------------------------- properties of the stored queue
\* C32: after any sequence of check-ins, game creations, persisted moves and
\* score recordings in one session, no two active check-ins have the same
\* queue position.
C32_ActivePositionsDistinct ==
    \A i, j \in ActiveCheckins(db) :
        i # j => db.checkins[i].queuePosition # db.checkins[j].queuePosition

\* C33: a player who checks in while a move request is between its Store
\* read and its Store write is in the active queue once both have completed:
\* every check-in created between populate and updateCheckins has an active
\* check-in of its player afterwards.
C33_InterleavedCheckinKept ==
    lastOp.op = "movePersisted" =>
        \A i \in (lastOp.rowsRead + 1) .. lastOp.rowsBefore :
            \E j \in ActiveCheckins(db) : db.checkins[j].userId = db.checkins[i].userId

\* C34: after any sequence of session creation, check-ins, game creations
\* and score recordings, the head counter (currentQueuePosition) never
\* exceeds the tail counter (queueNextUp); both are 1 when the session is
\* created.
C34_HeadNeverPassesTail ==
    \A s \in DOMAIN db.gameSets :
        /\ db.gameSets[s].currentQueuePosition >= 1
        /\ db.gameSets[s].currentQueuePosition <= db.gameSets[s].queueNextUp

\* ------------------------------------------- properties of the populate loop
\* C35: for every queue of checked-in players the populate routine that
\* drives transitionGameState in a loop terminates: once started it
\* eventually holds a COMPLETE snapshot or has raised an error.
C35_PopulateTerminates ==
    (origin = "machine") ~> (gameState.currentState = "COMPLETE" \/ engineError)

\* ------------------------------------------ properties of the move round trip
\* C36: persisting the snapshot a successful move returned and building a
\* fresh snapshot with populate gives Team A, Team B and next-up with the
\* same players in the same slots and order as the snapshot persisted, for
\* every populated snapshot and every move type: for every move that
\* succeeds on a snapshot populated from the current Store, and for the move
\* the route has just persisted in the session it read.
SamePlayersInSlots(fresh, state) ==
    /\ fresh.teamA = state.teamA
    /\ fresh.teamB = state.teamB
    /\ fresh.availablePlayers = state.availablePlayers

Populated(d) ==
    {populateGame(d.gameSets[getActiveGameSet(d)].playersPerTeam, UserIds(d, rows)) :
        rows \in getCheckins(d)}

C36_PersistThenPopulate ==
    ActiveGameSets(db) # {} =>
        /\ \A populated \in Populated(db), id \in Users, moveType \in MoveTypes :
              \A result \in {movePlayer(populated, id, moveType)} :
                  (result.success /\ ~result.threw) =>
                      \A fresh \in Populated(updateCheckins(db, getActiveGameSet(db),
                                                            result.updatedState)) :
                          SamePlayersInSlots(fresh, result.updatedState)
        /\ (lastOp.op = "movePersisted" /\ lastOp.setId = getActiveGameSet(db)) =>
              \A fresh \in Populated(db) : SamePlayersInSlots(fresh, gameState)

\* C36 witness: a BUMP of a team player has been persisted; the snapshot
\* persisted differs from the one the move started from and has a player
\* next up
C36_Witness ==
    /\ lastOp.op = "movePersisted"
    /\ lastMove.moveType = "BUMP"
    /\ gameState # lastMove.before
    /\ Len(gameState.availablePlayers) >= 1

\* C37: after any sequence of check-ins, game creations and score
\* recordings each player has at most one active check-in, and a check-in
\* for a player who has an active one creates no check-in and leaves the
\* tail counter as it was.
C37_OneActiveCheckinPerPlayer ==
    /\ \A i, j \in ActiveCheckins(db) :
          i # j => db.checkins[i].userId # db.checkins[j].userId
    /\ ActiveGameSets(db) # {} =>
          \A i \in ActiveCheckins(db) : createCheckin(db, db.checkins[i].userId) = db

\* C38: while a game is in state 'started', none of its players is in Team
\* A, Team B or next-up of a snapshot built by populate, and no player is in
\* two started games at once.
StartedPlayers(d, gameId) ==
    {d.gamePlayers[r].userId : r \in {q \in DOMAIN d.gamePlayers : d.gamePlayers[q].gameId = gameId}}

C38_PlayingPlayersNotPopulated ==
    \A g \in DOMAIN db.games :
        db.games[g].state = "started" =>
            /\ ActiveGameSets(db) # {} =>
                  \A rows \in getCheckins(db) :
                      \A id \in StartedPlayers(db, g) :
                          ~InSnapshot(populateGame(db.gameSets[getActiveGameSet(db)].playersPerTeam,
                                                   UserIds(db, rows)), id)
            /\ \A h \in DOMAIN db.games :
                  (h # g /\ db.games[h].state = "started") =>
                      StartedPlayers(db, g) \cap StartedPlayers(db, h) = {}

\* ------------------------------------------------- properties of sessions
\* C39: after a new session is created, the active queue read by populate
\* holds only check-ins of that session: check-ins left active from an
\* earlier session are not in it, and no two check-ins in it have the same
\* queue position.
C39_QueueOfActiveSessionOnly ==
    ActiveGameSets(db) # {} =>
        \A rows \in getCheckins(db) :
            \A k \in 1 .. Len(rows) :
                /\ db.checkins[rows[k]].gameSetId = getActiveGameSet(db)
                /\ \A j \in 1 .. Len(rows) :
                      j # k => db.checkins[rows[j]].queuePosition
                                    # db.checkins[rows[k]].queuePosition

====
